---- MODULE Spec2Model ----
(***************************************************************************)
(* A model of luminoso's LuminosoModel (src/luminoso/model.py) and its     *)
(* TermDatabase (src/luminoso/term_database.py).                           *)
(*                                                                         *)
(* Part 1: the priority index (self.priority, divisi2's PrioritySet) with  *)
(* the left factor of the association matrix (self.assoc.left).            *)
(* Part 2: the term database (terms, document_terms and documents tables). *)
(*                                                                         *)
(* Conventions.  PrioritySet and ReconstructedMatrix are divisi2 classes;   *)
(* what the model takes from them is what src/ shows of them: the calls    *)
(* made on them and the behaviour test_small pins down (add always inserts, *)
(* a full set first drops its lowest-priority item and reuses its index).  *)
(* What src/ does not fix (the priority add() gives a new key, the choice  *)
(* between equal lowest priorities, the numbers hebbian_increment writes)   *)
(* is a nondeterministic choice.                                           *)
(***************************************************************************)
EXTENDS Integers, Sequences, FiniteSets, TLC

None == "None"
\* Python's None where a priority is expected (index_term's default argument),
\* and the priority of a key that is not held.
NoPriority == -1

\* ---------------------------------------------------------------- bounds
\* config['num_concepts']: the capacity handed to PrioritySet(num_concepts).
NumConcepts == 3
\* Priorities are 0..MaxPriority; the largest stands for _BIG.
MaxPriority == 2

Terms == {"a", "b", "c", "d"}
Priorities == 0 .. MaxPriority
BIG == MaxPriority
\* A row of assoc.left, abstracted to whether it is the zero vector.
RowVals == {"zero", "nonzero"}

VARIABLES
    items,      \* self.priority.items: the list of keys, a key's slot is its position - 1
    priority,   \* the priority of each key held (None: not held)
    left,       \* self.assoc.left, one (abstract) row per slot 0..NumConcepts-1
    last,       \* the last call made: its name, arguments, result and what it dropped
    dflt        \* the priority add() gives a new key: fixed by divisi2, not by src/

indexvars == <<items, priority, left, last, dflt>>

\* The term database's key for the totals over all terms.
ANY == "*"
\* The words the documents are made of, and the keys of the terms table.
Words == {"a", "b"}
\* A term of three words.
Trigram == "a b a"
\* A bigram of the two words, as the reader joins adjacent tokens.
Bigram == "a b"
\* A tag as a term, the tuple (TAG, key, value).
TagTerm == "(TAG, k, v)"
TermKeys == Words \cup {ANY, Trigram, Bigram}
Docs == {"d1", "d2"}
\* doc_info['reader']: the configured reader, and another name.
Readers == {"simplenlp.en", "other"}
\* The number of database calls followed.
MaxOps == 4

VARIABLES
    terms,           \* the terms table: term -> Term row (count, distinct_docs)
    document_terms,  \* the document_terms table: (document, term) -> TermInDocument row
    documents,       \* the documents table: id -> Document row (text, reader)
    dblast,          \* the last database call: its name, arguments and exception
    prev,            \* the terms and document_terms tables before that call
    ops,             \* the number of database calls made
    rowapi,          \* what the ORM's rows are: fixed by sqlalchemy, not by src/
    term_count_cache \* TermDatabase.term_count_cache: term -> cached count

dbvars == <<terms, document_terms, documents, dblast, prev, ops, rowapi,
            term_count_cache>>

vars == <<items, priority, left, last, dflt,
          terms, document_terms, documents, dblast, prev, ops, rowapi,
          term_count_cache>>

\* ------------------------------------------------------- the priority set
\* A set built one key too large.
Capacity_OffByOne == NumConcepts + 1

\* _prioritize_labels: PrioritySet(num_concepts)
Capacity == NumConcepts

Range(s) == {s[i] : i \in 1 .. Len(s)}

Contains(its, key) == key \in Range(its)

\* PrioritySet.index(key): 0-based position of key in items.
IndexOf(its, key) == (CHOOSE i \in 1 .. Len(its) : its[i] = key) - 1

Held(pr) == {t \in Terms : pr[t] # NoPriority}

MinPriority(pr) == CHOOSE p \in Priorities :
                      /\ \E t \in Held(pr) : pr[t] = p
                      /\ \A t \in Held(pr) : pr[t] >= p

\* Dropping the keys of highest priority instead.
Lowest_Highest(pr) == {t \in Held(pr) : \A u \in Held(pr) : pr[u] <= pr[t]}

\* The keys a full set may drop: those of lowest priority.
Lowest(pr) == {t \in Held(pr) : \A u \in Held(pr) : pr[u] >= pr[t]}

NoDrop == [key |-> None, index |-> -1, prio |-> -1]

\* add() without the test for a key already held: while there is room the key is
\* appended again.
PrioritySetAdd_NoMembershipTest(its, pr, key, victim) ==
    IF Len(its) < Capacity
    THEN [items |-> Append(its, key),
          priority |-> [pr EXCEPT ![key] = dflt],
          index |-> Len(its),
          drop |-> NoDrop]
    ELSE IF Contains(its, key)
    THEN [items |-> its, priority |-> pr, index |-> IndexOf(its, key), drop |-> NoDrop]
    ELSE LET idx == IndexOf(its, victim)
         IN  [items |-> [its EXCEPT ![idx + 1] = key],
              priority |-> [pr EXCEPT ![victim] = NoPriority, ![key] = dflt],
              index |-> idx,
              drop |-> [key |-> victim, index |-> idx, prio |-> pr[victim]]]

\* PrioritySet.add(key): returns the index of key.  A key already held keeps its
\* index and priority.  A new key is appended while there is room; in a full set
\* the lowest-priority key `victim' is dropped first and the new key takes its
\* index.  The new key starts with priority dflt.
PrioritySetAdd(its, pr, key, victim) ==
    IF Contains(its, key)
    THEN [items |-> its, priority |-> pr, index |-> IndexOf(its, key), drop |-> NoDrop]
    ELSE IF Len(its) < Capacity
    THEN [items |-> Append(its, key),
          priority |-> [pr EXCEPT ![key] = dflt],
          index |-> Len(its),
          drop |-> NoDrop]
    ELSE LET idx == IndexOf(its, victim)
         IN  [items |-> [its EXCEPT ![idx + 1] = key],
              priority |-> [pr EXCEPT ![victim] = NoPriority, ![key] = dflt],
              index |-> idx,
              drop |-> [key |-> victim, index |-> idx, prio |-> pr[victim]]]

\* PrioritySet.update(key, priority)
PrioritySetUpdate(pr, key, p) == [pr EXCEPT ![key] = p]

\* A listener that leaves the row as it is.
on_drop_Nothing(lft, index, key) == lft

\* LuminosoModel.on_drop(index, key): self.assoc.left[index, :] = 0
on_drop(lft, index, key) == [lft EXCEPT ![index] = "zero"]

\* The drop listeners registered by _load_assoc run inside add().
AfterDrop(lft, drop) ==
    IF drop.key = None THEN lft ELSE on_drop(lft, drop.index, drop.key)

\* What a call records of a drop: the drop, the row at the dropped index before
\* the listeners ran (was) and the row read there once they have run, before
\* add() hands the index to the new key (row).
Seen(drop, before, after) ==
    [key |-> drop.key, index |-> drop.index, prio |-> drop.prio,
     was |-> IF drop.key = None THEN "zero" ELSE before[drop.index],
     row |-> IF drop.key = None THEN "zero" ELSE after[drop.index]]

\* Python truth of the `priority' argument: None and 0 are false.
Truthy(p) == p # NoPriority /\ p # 0

\* The victims add() may choose for a new key in a full set (None: no drop).
Victims(its, pr, key) ==
    IF ~Contains(its, key) /\ Len(its) >= Capacity THEN Lowest(pr) ELSE {None}

\* index_term as the rejecting insert: a full set declines a new term whose
\* priority is not above the lowest one held.
index_term_RejectsLow(term, p) ==
    \E victim \in Victims(items, priority, term) :
        LET r == PrioritySetAdd(items, priority, term, victim)
            lft == AfterDrop(left, r.drop)
            rejected == /\ victim # None
                        /\ p <= MinPriority(priority)
        IN  /\ items' = IF rejected THEN items ELSE r.items
            /\ priority' = IF rejected THEN priority
                           ELSE IF Truthy(p) THEN PrioritySetUpdate(r.priority, term, p)
                           ELSE r.priority
            /\ left' = IF rejected THEN left ELSE lft
            /\ dflt' = dflt
            /\ UNCHANGED dbvars
            /\ last' = [op |-> "index_term", term |-> term, term2 |-> None, arg |-> p,
                        index |-> IF rejected THEN -1 ELSE r.index, col |-> -1,
                        drop |-> IF rejected THEN Seen(NoDrop, left, left)
                                             ELSE Seen(r.drop, left, lft),
                        drop2 |-> Seen(NoDrop, lft, lft),
                        held |-> Contains(items, term), query |-> <<>>, err |-> None]

\* index_term that adds the term only when a priority is given.
index_term_OnlyIfPriority(term, p) ==
    \E victim \in Victims(items, priority, term) :
        LET r == PrioritySetAdd(items, priority, term, victim)
            lft == AfterDrop(left, r.drop)
        IN  /\ items' = IF Truthy(p) THEN r.items ELSE items
            /\ priority' = IF Truthy(p) THEN PrioritySetUpdate(r.priority, term, p)
                                        ELSE priority
            /\ left' = IF Truthy(p) THEN lft ELSE left
            /\ dflt' = dflt
            /\ UNCHANGED dbvars
            /\ last' = [op |-> "index_term", term |-> term, term2 |-> None, arg |-> p,
                        index |-> IF Truthy(p) THEN r.index ELSE -1, col |-> -1,
                        drop |-> IF Truthy(p) THEN Seen(r.drop, left, lft)
                                              ELSE Seen(NoDrop, left, left),
                        drop2 |-> Seen(NoDrop, lft, lft),
                        held |-> Contains(items, term), query |-> <<>>, err |-> None]

\* LuminosoModel.index_term(term, priority)
index_term(term, p) ==
    \E victim \in Victims(items, priority, term) :
        LET r == PrioritySetAdd(items, priority, term, victim)
            lft == AfterDrop(left, r.drop)
        IN  /\ items' = r.items
            /\ priority' = IF Truthy(p) THEN PrioritySetUpdate(r.priority, term, p)
                                        ELSE r.priority
            /\ left' = lft
            /\ dflt' = dflt
            /\ UNCHANGED dbvars
            /\ last' = [op |-> "index_term", term |-> term, term2 |-> None, arg |-> p,
                        index |-> r.index, col |-> -1,
                        drop |-> Seen(r.drop, left, lft), drop2 |-> Seen(NoDrop, lft, lft),
                        held |-> Contains(items, term), query |-> <<>>, err |-> None]

IndexTerm == \E term \in Terms, p \in Priorities \cup {NoPriority} : index_term(term, p)

\* ReconstructedMatrix.hebbian_increment(row, col, weight): rewrites rows `row' and
\* `col' of the left factor; v1 and v2 are what it leaves there.
hebbian_increment(lft, row, col, v1, v2) ==
    IF row = col THEN [lft EXCEPT ![row] = v1]
                 ELSE [lft EXCEPT ![row] = v1, ![col] = v2]

\* LuminosoModel.learn_assoc(weight, term1, term2): index(term) or, on KeyError,
\* add(term), for term1 and then for term2; then the Hebbian step on (row, col).
learn_assoc(term1, term2) ==
    \E v1 \in RowVals, v2 \in RowVals :
    \E victim1 \in Victims(items, priority, term1) :
        LET r1 == PrioritySetAdd(items, priority, term1, victim1)
            l1 == AfterDrop(left, r1.drop)
        IN  \E victim2 \in Victims(r1.items, r1.priority, term2) :
                LET r2 == PrioritySetAdd(r1.items, r1.priority, term2, victim2)
                    l2 == AfterDrop(l1, r2.drop)
                IN  /\ items' = r2.items
                    /\ priority' = r2.priority
                    /\ left' = hebbian_increment(l2, r1.index, r2.index, v1, v2)
                    /\ dflt' = dflt
                    /\ UNCHANGED dbvars
                    /\ last' = [op |-> "learn_assoc", term |-> term1, term2 |-> term2,
                                arg |-> NoPriority,
                                index |-> r1.index, col |-> r2.index,
                                drop |-> Seen(r1.drop, left, l1), drop2 |-> Seen(r2.drop, l1, l2),
                                held |-> Contains(items, term1), query |-> <<>>, err |-> None]

\* The pairs learn_assoc is called with.
LearnPairs == {<<"a", "b">>, <<"c", "d">>, <<"d", "d">>}

LearnAssoc == \E pair \in LearnPairs : learn_assoc(pair[1], pair[2])

NoCall == [op |-> "init", term |-> None, term2 |-> None, arg |-> NoPriority,
           index |-> -1, col |-> -1,
           drop |-> [key |-> None, index |-> -1, prio |-> -1, was |-> "zero", row |-> "zero"],
           drop2 |-> [key |-> None, index |-> -1, prio |-> -1, was |-> "zero", row |-> "zero"],
           held |-> FALSE, query |-> <<>>, err |-> None]

\* LuminosoModel.make: _prioritize_labels loads the seed matrix's row labels, at
\* most num_concepts of them, each with priority _BIG; make_empty has none.
SeedLabels == {<<>>, <<"a", "b">>}

\* ------------------------------------------------------- the term database
\* Counts and weights are in halves: the reader's weight 1.0 is 2 and the -0.5
\* it gives a negated term is -1, so every stored number is an integer.

\* The Term row of a term that has none.
NoTerm == [present |-> FALSE, count |-> 0, distinct_docs |-> 0, relevance |-> [lo |-> 0, hi |-> 0]]
\* The TermInDocument row of a (document, term) pair that has none.
\* rows is the number of rows the table holds for the pair.
NoEntry == [present |-> FALSE, count |-> 0, rows |-> 0]
\* The Document row of an id that has none.
NoDoc == [present |-> FALSE, text |-> None, reader |-> None]

Abs(x) == IF x < 0 THEN -x ELSE x

\* A key term_count_cache does not hold.
NoCache == [cached |-> FALSE, count |-> 0]

\* The three tables and the count cache as one value, with the exception
\* raised so far (None: none).
DB(tt, dt, dd, cc, e) ==
    [terms |-> tt, document_terms |-> dt, documents |-> dd, cache |-> cc, err |-> e]

Raise(db, e) == [db EXCEPT !.err = e]

\* TermDatabase._increment_term_document_count(document, term, value): adds
\* value to the pair's row, or creates the row with value.
increment_term_document_count(dt, document, term, value) ==
    IF dt[<<document, term>>].present
    THEN [dt EXCEPT ![<<document, term>>].count = @ + value]
    ELSE [dt EXCEPT ![<<document, term>>] =
              [present |-> TRUE, count |-> value, rows |-> @.rows + 1]]

\* A return value that looks at the document only: True when the document has
\* no row at all.
IsNewDoc_AnyRowOfDocument(dt, document, term) ==
    \A t \in TermKeys : ~dt[<<document, t>>].present

\* Its return value: True when the pair had no row.
IsNewDoc(dt, document, term) == ~dt[<<document, term>>].present

\* TermDatabase._increment_term_count(term, value, newdoc); the assertion of the
\* else branch is AssertNewDoc below.
increment_term_count(tt, term, value, newdoc) ==
    IF tt[term].present
    THEN [tt EXCEPT ![term].count = @ + value,
                    ![term].distinct_docs = IF newdoc THEN @ + 1 ELSE @]
    ELSE [tt EXCEPT ![term] = [present |-> TRUE, count |-> value, distinct_docs |-> 1,
                               relevance |-> [lo |-> 0, hi |-> 0]]]

\* self.term_count_cache[term] = term_entry.count, which _increment_term_count
\* does in the branch for a term that has a row (tt: the table before it).
cache_term_count(cc, tt, term, value) ==
    IF tt[term].present
    THEN [cc EXCEPT ![term] = [cached |-> TRUE, count |-> tt[term].count + value]]
    ELSE cc

\* assert newdoc, in the branch for a term without a row.
AssertNewDoc(tt, term, newdoc) == tt[term].present \/ newdoc

\* ---------------------------------------------------- bigram significance
\* The count 1 in the halves all counts are kept in.
One == 2

\* A float as the interval it lies in, in millionths.
Float(lo, hi) == [lo |-> lo, hi |-> hi]

\* A count c (in halves) as a float.
CountFloat(c) == Float(c * 500000, c * 500000)

\* math.log on the integers met below, in millionths and rounded down: the
\* logarithm of k lies in LnLo(k) .. LnHi(k).
LnTable == <<0, 693147, 1098612, 1386294, 1609437, 1791759, 1945910, 2079441,
             2197224, 2302585, 2397895, 2484906, 2564949, 2639057, 2708050, 2772588,
             2833213, 2890371, 2944438, 2995732, 3044522, 3091042, 3135494, 3178053,
             3218875, 3258096, 3295836, 3332204, 3367295, 3401197, 3433987, 3465735,
             3496507, 3526360, 3555348, 3583518, 3610917, 3637586, 3663561, 3688879,
             3713572, 3737669, 3761200, 3784189, 3806662, 3828641, 3850147, 3871201>>

LnLo(k) == LnTable[k]

LnHi(k) == IF k = 1 THEN 0 ELSE LnTable[k] + 1

\* contingency = [n_12+1, n_o2+1, n_1o+1, n_oo+1], indexed from 0; like the
\* counts it is in halves.
contingency(n_12, n_1, n_2, n) ==
    LET n_o2 == n_2 - n_12
        n_1o == n_1 - n_12
        n_oo == n - n_12 - n_1o - n_o2
    IN  [i \in 0 .. 3 |-> CASE i = 0 -> n_12 + One
                            [] i = 1 -> n_o2 + One
                            [] i = 2 -> n_1o + One
                            [] OTHER -> n_oo + One]

\* i ^ 1 and i ^ 2 on 0 .. 3.
Xor1(i) == IF i % 2 = 0 THEN i + 1 ELSE i - 1

Xor2(i) == IF i < 2 THEN i + 2 ELSE i - 2

\* _expected_values(cont)[i] is (cont[i] + cont[i ^ 1]) * (cont[i] + cont[i ^ 2]) / n;
\* it is kept as its two factors and the divisor n = sum(cont), all in halves.
expected_values(cont) ==
    [i \in 0 .. 3 |-> [row |-> cont[i] + cont[Xor1(i)],
                       col |-> cont[i] + cont[Xor2(i)],
                       n   |-> cont[0] + cont[1] + cont[2] + cont[3]]]

\* math.log(float(obs) / (exp + _SMALL) + _SMALL) raises ValueError for an
\* argument that is not positive.  obs = 0 gives log(_SMALL), which the factor
\* obs then multiplies to zero; otherwise _SMALL = 1e-22 is below the precision
\* of a float next to obs / exp and changes nothing, and the sign of the
\* argument is that of obs * row * col * n.  exp = 0 with obs > 0 comes with a
\* negative entry in the same row or column, which raises.
LogRaises(cont, expected) ==
    \E i \in 0 .. 3 :
        /\ cont[i] # 0
        /\ cont[i] * expected[i].row * expected[i].col * expected[i].n <= 0

\* obs * log(obs / exp) for entry i, obs in halves: the bounds of the logarithm,
\* and the product at its lower (hi = FALSE) or upper bound.
LogTerm(cont, expected, i, hi) ==
    LET e == expected[i]
        llo == LnLo(Abs(cont[i])) + LnLo(Abs(e.n)) - LnHi(Abs(e.row)) - LnHi(Abs(e.col))
        lhi == LnHi(Abs(cont[i])) + LnHi(Abs(e.n)) - LnLo(Abs(e.row)) - LnLo(Abs(e.col))
    IN  IF cont[i] = 0 THEN 0
        ELSE IF (cont[i] > 0) = hi THEN cont[i] * lhi ELSE cont[i] * llo

\* The magic formula with its sign turned.
likelihood_Negated(cont, expected) ==
    Float(0 - (LogTerm(cont, expected, 0, TRUE) + LogTerm(cont, expected, 1, TRUE)
               + LogTerm(cont, expected, 2, TRUE) + LogTerm(cont, expected, 3, TRUE)),
          0 - (LogTerm(cont, expected, 0, FALSE) + LogTerm(cont, expected, 1, FALSE)
               + LogTerm(cont, expected, 2, FALSE) + LogTerm(cont, expected, 3, FALSE)))

\* likelihood = 2 * sum(obs * log(obs / exp)): with obs in halves the factor 2
\* is in the entries' unit, and the sum of the four terms is the value.
likelihood(cont, expected) ==
    Float(LogTerm(cont, expected, 0, FALSE) + LogTerm(cont, expected, 1, FALSE)
          + LogTerm(cont, expected, 2, FALSE) + LogTerm(cont, expected, 3, FALSE),
          LogTerm(cont, expected, 0, TRUE) + LogTerm(cont, expected, 1, TRUE)
          + LogTerm(cont, expected, 2, TRUE) + LogTerm(cont, expected, 3, TRUE))

NoValue == [err |-> None, value |-> None]

\* bigram_likelihood_ratio(n_12, n_1, n_2, n), the counts in halves: the float
\* it returns, or the exception of the division by n = 0 or of math.log.
bigram_likelihood_ratio(n_12, n_1, n_2, n) ==
    LET cont == contingency(n_12, n_1, n_2, n)
        expected == expected_values(cont)
    IN  IF expected[0].n = 0 THEN [NoValue EXCEPT !.err = "ZeroDivisionError"]
        ELSE IF LogRaises(cont, expected)
        THEN [NoValue EXCEPT !.err = "ValueError"]
        ELSE [NoValue EXCEPT !.value = likelihood(cont, expected)]

\* isinstance(term, tuple)
IsTuple(term) == term = TagTerm

\* term.split(' ') for the strings among the terms.
Split(term) ==
    CASE term = "a" -> <<"a">>
      [] term = "b" -> <<"b">>
      [] term = ANY -> <<ANY>>
      [] term = Bigram -> <<"a", "b">>
      [] term = Trigram -> <<"a", "b", "a">>

\* TermDatabase.count_term(term): the cached count if the cache has the term,
\* else the count of its row.  What it stores itself goes under the key
\* term_entry (the row object, or None), which no lookup by a term string finds.
count_term(cc, tt, term) ==
    IF cc[term].cached THEN cc[term].count
    ELSE IF tt[term].present THEN tt[term].count ELSE 0

\* TermDatabase.term_relevance(term): term.split(' ') comes first, and a tuple
\* has no split; then the test for a tuple, then the number of words.  The
\* value is a float: the count of a word, the likelihood ratio of a bigram.
term_relevance(cc, tt, term) ==
    IF IsTuple(term) THEN [NoValue EXCEPT !.err = "AttributeError"]
    ELSE LET words == Split(term)
         IN  IF Len(words) = 1
             THEN [NoValue EXCEPT !.value = CountFloat(count_term(cc, tt, term))]
             ELSE IF Len(words) = 2
             THEN bigram_likelihood_ratio(count_term(cc, tt, term),
                                          count_term(cc, tt, words[1]),
                                          count_term(cc, tt, words[2]),
                                          count_term(cc, tt, ANY))
             ELSE [NoValue EXCEPT !.err = "NotImplementedError"]

\* TermDatabase._update_term_relevance(term): term_entry.relevance =
\* self.term_relevance(term), on the row the increment has just made or changed.
update_term_relevance(db, term) ==
    LET relevance == term_relevance(db.cache, db.terms, term)
    IN  IF relevance.err # None THEN Raise(db, relevance.err)
        ELSE [db EXCEPT !.terms[term].relevance = relevance.value]

\* TermDatabase.increment_term_in_document(document, term, value) for a term
\* that is not a tag: the pair's row gets the signed value, the term, the pair
\* (document, ANY) and ANY get its absolute value.
increment_term_in_document(db, document, term, value) ==
    LET newdoc == IsNewDoc(db.document_terms, document, term)
        d1 == increment_term_document_count(db.document_terms, document, term, value)
        absv == Abs(value)
        t1 == increment_term_count(db.terms, term, absv, newdoc)
        newdoc_any == IsNewDoc(d1, document, ANY)
        d2 == increment_term_document_count(d1, document, ANY, absv)
        t2 == increment_term_count(t1, ANY, absv, newdoc_any)
        c1 == cache_term_count(db.cache, db.terms, term, absv)
        c2 == cache_term_count(c1, t1, ANY, absv)
    IN  IF ~AssertNewDoc(db.terms, term, newdoc)
        THEN Raise([db EXCEPT !.document_terms = d1], "AssertionError")
        ELSE IF ~AssertNewDoc(t1, ANY, newdoc_any)
        THEN Raise([db EXCEPT !.document_terms = d2, !.terms = t1, !.cache = c1],
                   "AssertionError")
        ELSE update_term_relevance(
                 [db EXCEPT !.document_terms = d2, !.terms = t2, !.cache = c2], term)

\* The loop of add_document over doc_info['terms'], a list of (term, value).
RECURSIVE increment_terms(_, _, _)
increment_terms(db, docid, termlist) ==
    IF termlist = <<>> \/ db.err # None THEN db
    ELSE increment_terms(
             increment_term_in_document(db, docid, Head(termlist)[1], Head(termlist)[2]),
             docid, Tail(termlist))

\* The terms with a row of this document in document_terms (ANY among them).
RowsOf(db, document) == {t \in TermKeys : db.document_terms[<<document, t>>].present}

\* A loop that deletes the Term row along with the document's row.
clear_rows_DeletesTerms(db, document) ==
    [db EXCEPT
        !.terms = [t \in TermKeys |->
            IF t \in RowsOf(db, document) THEN NoTerm ELSE @[t]],
        !.document_terms = [k \in DOMAIN @ |-> IF k[1] = document THEN NoEntry ELSE @[k]]]

\* The loop of _clear_document when its rows unpack: each row's term loses the
\* row's (signed) count and one distinct document, and the row is deleted.
\* Every row is the row of a different term, so the loop is one pointwise step.
clear_rows(db, document) ==
    [db EXCEPT
        !.terms = [t \in TermKeys |->
            IF t \in RowsOf(db, document)
            THEN [@[t] EXCEPT !.count = @ - db.document_terms[<<document, t>>].count,
                              !.distinct_docs = @ - 1]
            ELSE @[t]],
        !.document_terms = [k \in DOMAIN @ |-> IF k[1] = document THEN NoEntry ELSE @[k]]]

\* The last statements of _clear_document: ANY loses one distinct document.
clear_any(db) ==
    IF ~db.terms[ANY].present THEN Raise(db, "AttributeError")
    ELSE [db EXCEPT !.terms[ANY].distinct_docs = @ - 1]

\* doc.delete()
delete_doc(db, document) ==
    IF ~db.documents[document].present \/ rowapi = "mapped" THEN Raise(db, "AttributeError")
    ELSE [db EXCEPT !.documents[document] = NoDoc]

\* TermDatabase._clear_document(document).  `term, document, count = row',
\* row.delete() and doc.delete() are calls on what the ORM hands out; with
\* rowapi = "rowlike" they do what they say, with rowapi = "mapped" the rows
\* are plain mapped objects, which neither unpack nor have delete().
clear_document_inner(db, document) ==
    LET looped == IF RowsOf(db, document) = {} THEN db
                  ELSE IF rowapi = "mapped" THEN Raise(db, "TypeError")
                  ELSE IF \E t \in RowsOf(db, document) : ~db.terms[t].present
                       THEN Raise(db, "AttributeError")
                  ELSE clear_rows(db, document)
        counted == IF looped.err # None THEN looped ELSE clear_any(looped)
    IN  IF counted.err # None THEN counted ELSE delete_doc(counted, document)

\* TermDatabase.clear_document(document): _clear_document, then commit.
clear_document(db, document) == clear_document_inner(db, document)

\* TermDatabase.count_term_distinct_documents(term)
count_term_distinct_documents(tt, term) ==
    IF term \in DOMAIN tt /\ tt[term].present THEN tt[term].distinct_docs ELSE 0

\* TermDatabase.term_idf(term) is log(num) - log(den); math.log raises
\* ValueError unless its argument is positive.
term_idf(tt, term) ==
    LET num == 2 + count_term_distinct_documents(tt, ANY)
        den == 1 + count_term_distinct_documents(tt, term)
    IN  [err |-> IF num <= 0 \/ den <= 0 THEN "ValueError" ELSE None,
         num |-> num, den |-> den]

\* TermDatabase.count_documents()
count_documents(tt) == count_term_distinct_documents(tt, ANY)

\* TermDatabase.all_documents(): the ids in the documents table.
all_documents(dd) == {d \in Docs : dd[d].present}

\* TermDatabase.count_term_in_document(term, document)
count_term_in_document(dt, term, document) ==
    IF dt[<<document, term>>].present THEN dt[<<document, term>>].count ELSE 0

\* TermDatabase.tfidf_term_in_document(term, document): tf is the quotient
\* tfnum / tfden, computed first; idf is log(num) - log(den).
tfidf_term_in_document(tt, dt, term, document) ==
    LET tfnum == count_term_in_document(dt, term, document)
        tfden == count_term_in_document(dt, ANY, document)
        num == 1 + count_term_distinct_documents(tt, ANY)
        den == 1 + count_term_distinct_documents(tt, term)
    IN  [err |-> IF tfden = 0 THEN "ZeroDivisionError"
                 ELSE IF num <= 0 \/ den <= 0 THEN "ValueError"
                 ELSE None,
         tfnum |-> tfnum, tfden |-> tfden, num |-> num, den |-> den]

\* What the reader extracts from each text as (term, weight) pairs with the
\* document: "a not b" has b negated, "b b" has b twice, "" has no term.
Texts == {"", "a not b", "b b"}

\* A text the reader gives a bigram for: a word, the next, and the two joined.
BigramText == "a b"

TermsOf(text) ==
    CASE text = "" -> <<>>
      [] text = "a not b" -> <<<<"a", 2>>, <<"b", -1>>>>
      [] text = "b b" -> <<<<"b", 2>>, <<"b", 2>>>>
      [] text = "b" -> <<<<"b", 2>>>>
      [] text = BigramText -> <<<<"a", 2>>, <<"b", 2>>, <<Bigram, 2>>>>

\* An add_document that replaces the stored document whatever it holds.
add_document_AlwaysReplaces(db, docid, text, reader_name) ==
    LET doc == db.documents[docid]
        cleared == IF doc.present THEN clear_document_inner(db, docid) ELSE db
        counted == IF cleared.err # None THEN cleared
                   ELSE increment_terms(cleared, docid, TermsOf(text))
    IN  IF counted.err # None THEN counted
        ELSE [counted EXCEPT !.documents[docid] =
                  [present |-> TRUE, text |-> text, reader |-> reader_name]]

\* TermDatabase.add_document(doc_info), doc_info['terms'] being TermsOf(text).
add_document(db, docid, text, reader_name) ==
    LET doc == db.documents[docid]
        cleared == IF doc.present THEN clear_document_inner(db, docid) ELSE db
        counted == IF cleared.err # None THEN cleared
                   ELSE increment_terms(cleared, docid, TermsOf(text))
    IN  IF doc.present /\ doc.text = text /\ doc.reader = reader_name THEN db
        ELSE IF counted.err # None THEN counted
        ELSE [counted EXCEPT !.documents[docid] =
                  [present |-> TRUE, text |-> text, reader |-> reader_name]]

Current == DB(terms, document_terms, documents, term_count_cache, None)

\* The call just made (text: its text or term argument, ret: what it returned)
\* and the tables as they were before it.
Called(op, docid, text, reader_name, after, ret) ==
    /\ terms' = after.terms
    /\ document_terms' = after.document_terms
    /\ documents' = after.documents
    /\ dblast' = [op |-> op, doc |-> docid, text |-> text, reader |-> reader_name,
                  existed |-> docid \in Docs /\ documents[docid].present,
                  same |-> /\ docid \in Docs
                           /\ documents[docid].present
                           /\ documents[docid].text = text
                           /\ documents[docid].reader = reader_name,
                  err |-> after.err, ret |-> ret]
    /\ prev' = [terms |-> terms, document_terms |-> document_terms]
    /\ ops' = ops + 1
    /\ rowapi' = rowapi
    /\ term_count_cache' = after.cache

AddDocument ==
    \E docid \in Docs, text \in Texts, reader_name \in Readers :
        /\ ops < MaxOps
        /\ Called("add_document", docid, text, reader_name,
                  add_document(Current, docid, text, reader_name), None)
        /\ UNCHANGED indexvars

\* add_document of a document with a bigram among its terms.
AddBigramDocument ==
    \E docid \in Docs, reader_name \in Readers :
        /\ ops < MaxOps
        /\ Called("add_document", docid, BigramText, reader_name,
                  add_document(Current, docid, BigramText, reader_name), None)
        /\ UNCHANGED indexvars

ClearDocument ==
    \E docid \in Docs :
        /\ ops < MaxOps
        /\ Called("clear_document", docid, None, None, clear_document(Current, docid), None)
        /\ UNCHANGED indexvars

\* The weights a term is observed with: 1.0, and -0.5 for a negated term.
Weights == {2, -1}

\* increment_term_in_document(document, term, value) called by itself; the
\* value kept of it is what its first _increment_term_document_count returned.
IncrementTermInDocument ==
    \E docid \in Docs, term \in Words \cup {Trigram}, value \in Weights :
        /\ ops < MaxOps
        /\ Called("increment_term_in_document", docid, term, None,
                  increment_term_in_document(Current, docid, term, value),
                  IsNewDoc(document_terms, docid, term))
        /\ UNCHANGED indexvars

\* term_relevance(term) called by itself: a query, the tables stay.
TermRelevance ==
    \E term \in Words \cup {Trigram, TagTerm} :
        LET relevance == term_relevance(term_count_cache, terms, term)
        IN  /\ ops < MaxOps
            /\ Called("term_relevance", None, term, None,
                      Raise(Current, relevance.err), relevance.value)
            /\ UNCHANGED indexvars

InitDB ==
    /\ terms = [t \in TermKeys |-> NoTerm]
    /\ document_terms = [k \in Docs \X TermKeys |-> NoEntry]
    /\ documents = [d \in Docs |-> NoDoc]
    /\ dblast = [op |-> "init", doc |-> None, text |-> None, reader |-> None,
                 existed |-> FALSE, same |-> FALSE, err |-> None, ret |-> None]
    /\ prev = [terms |-> terms, document_terms |-> document_terms]
    /\ ops = 0
    /\ term_count_cache = [t \in TermKeys |-> NoCache]
    /\ rowapi \in {"rowlike", "mapped"}

Sign(x) == IF x > 0 THEN 1 ELSE IF x < 0 THEN -1 ELSE 0

\* vector_from_terms: total_weight, the sum of the weights of all terms given.
RECURSIVE total_weight(_)
total_weight(query) ==
    IF query = <<>> THEN 0 ELSE Head(query)[2] + total_weight(Tail(query))

\* The sign of weight * idf / total_weight, total_weight not being 0.
TfidfSign(weight, idf, total) == Sign(weight) * Sign(idf.num - idf.den) * Sign(total)

\* vector_from_terms: the loop over the terms.  A term that is not in
\* self.priority is passed over; for one that is, its IDF is looked up
\* (idf_cache holds what term_idf gave), the division by total_weight follows
\* and then the assertion tfidf_weight > 0.  The value is the first exception,
\* None if there is none.
RECURSIVE loop_failure(_, _, _, _)
loop_failure(its, tt, query, total) ==
    IF query = <<>> THEN None
    ELSE LET term == Head(query)[1]
             weight == Head(query)[2]
             idf == term_idf(tt, term)
         IN  IF ~Contains(its, term) THEN loop_failure(its, tt, Tail(query), total)
             ELSE IF idf.err # None THEN idf.err
             ELSE IF total = 0 THEN "ZeroDivisionError"
             ELSE IF TfidfSign(weight, idf, total) <= 0 THEN "AssertionError"
             ELSE loop_failure(its, tt, Tail(query), total)

\* The slots of the terms of the query that are in self.priority.
SlotsOf(its, query) ==
    {IndexOf(its, query[k][1]) : k \in {j \in 1 .. Len(query) : Contains(its, query[j][1])}}

\* A vector_from_terms that does not test the vector it built.
vector_from_terms_NoNormTest(its, lft, tt, query) ==
    LET failure == loop_failure(its, tt, query, total_weight(query))
    IN  IF failure # None THEN {failure} ELSE {None}

\* LuminosoModel.vector_from_terms(terms): the exceptions it can end with
\* (None: it returns the category vector).  After the loop vec holds a
\* positive number in each slot of SlotsOf and 0 elsewhere; category is
\* dot(vec, assoc.left), which is 0 when all those rows are, is not 0 when one
\* of them is not, and may or may not cancel out when several are not.
vector_from_terms(its, lft, tt, query) ==
    LET failure == loop_failure(its, tt, query, total_weight(query))
        slots == SlotsOf(its, query)
        nonzero == {i \in slots : lft[i] = "nonzero"}
    IN  IF failure # None THEN {failure}
        ELSE IF slots = {} THEN {"AssertionError"}
        ELSE IF nonzero = {} THEN {"AssertionError"}
        ELSE IF Cardinality(nonzero) = 1 THEN {None}
        ELSE {None, "AssertionError"}

\* The weighted terms vector_from_terms is asked for: no term, one term, a
\* negated term, weights that add up to 0, and terms that may not be tracked.
Queries ==
    { <<>>,
      <<<<"a", 2>>>>,
      <<<<"d", 2>>>>,
      <<<<"b", -1>>>>,
      <<<<"a", 2>>, <<"b", -2>>>>,
      <<<<"a", 2>>, <<"b", -1>>>>,
      <<<<"a", 2>>, <<"c", 2>>>>,
      <<<<"c", 2>>, <<"d", 2>>>>,
      <<<<"c", -2>>, <<"d", -1>>>>,
      <<<<"d", 2>>, <<"d", -2>>>> }

VectorFromTerms ==
    \E query \in Queries :
        \E err \in vector_from_terms(items, left, terms, query) :
            /\ last' = [NoCall EXCEPT !.op = "vector_from_terms", !.query = query,
                                      !.arg = total_weight(query), !.err = err]
            /\ UNCHANGED <<items, priority, left, dflt>>
            /\ UNCHANGED dbvars

InitIndex ==
    /\ InitDB
    /\ rowapi = "rowlike"
    /\ items \in SeedLabels
    /\ priority = [t \in Terms |-> IF t \in Range(items) THEN BIG ELSE NoPriority]
    /\ left \in [0 .. NumConcepts - 1 -> RowVals]
    /\ \A i \in 0 .. NumConcepts - 1 : i >= Len(items) => left[i] = "zero"
    /\ last = NoCall
    /\ dflt \in Priorities

\* index_term alone, as test_small drives it.
NextIndex == IndexTerm

SpecIndex == InitIndex /\ [][NextIndex]_vars

\* index_term and learn_assoc.
NextLearn == IndexTerm \/ LearnAssoc

SpecLearn == InitIndex /\ [][NextLearn]_vars

\* learn_assoc alone, on terms the set holds or not.
NextLearnOnly == LearnAssoc

SpecLearnOnly == InitIndex /\ [][NextLearnOnly]_vars

\* index_term and vector_from_terms.
NextProject == IndexTerm \/ VectorFromTerms

SpecProject == InitIndex /\ [][NextProject]_vars

\* The term database alone, under an index that is not touched.
InitTermDatabase ==
    /\ InitDB
    /\ items = <<>>
    /\ priority = [t \in Terms |-> NoPriority]
    /\ left = [i \in 0 .. NumConcepts - 1 |-> "zero"]
    /\ last = NoCall
    /\ dflt = 0

\* tfidf_term_in_document(term, document) called by itself: a query.
TfidfTermInDocument ==
    \E docid \in Docs, term \in Words :
        LET tfidf == tfidf_term_in_document(terms, document_terms, term, docid)
        IN  /\ ops < MaxOps
            /\ Called("tfidf_term_in_document", docid, term, None,
                      Raise(Current, tfidf.err), tfidf)
            /\ UNCHANGED indexvars

\* term_idf(term) called by itself: a query.
TermIdf ==
    \E term \in Words :
        LET idf == term_idf(terms, term)
        IN  /\ ops < MaxOps
            /\ Called("term_idf", None, term, None, Raise(Current, idf.err), idf)
            /\ UNCHANGED indexvars

NextTermDatabase ==
    AddDocument \/ ClearDocument \/ IncrementTermInDocument \/ TermRelevance

SpecTermDatabase == InitTermDatabase /\ [][NextTermDatabase]_vars

\* Documents are added and cleared, and the TF-IDF queries are made.
NextQueries == AddDocument \/ ClearDocument \/ TfidfTermInDocument \/ TermIdf

SpecQueries == InitTermDatabase /\ [][NextQueries]_vars

\* Documents with and without a bigram are added, and cleared.
NextRelevance == AddDocument \/ AddBigramDocument \/ ClearDocument

SpecRelevance == InitTermDatabase /\ [][NextRelevance]_vars

\* Documents are only added (and re-added), never cleared by the caller.
NextAddOnly == AddDocument

SpecAddOnly == InitTermDatabase /\ [][NextAddOnly]_vars

\* ------------------------------------------------- documents into the model
\* The priority set and the left factor as one value.
IndexState(its, pr, lft) == [items |-> its, priority |-> pr, left |-> lft]

\* LuminosoModel.index_term(term, priority) on an index state: the states it
\* can leave, one for each key add() may drop.
index_term_on(ix, term, p) ==
    {LET r == PrioritySetAdd(ix.items, ix.priority, term, victim)
     IN  IndexState(r.items,
                    IF Truthy(p) THEN PrioritySetUpdate(r.priority, term, p)
                                 ELSE r.priority,
                    AfterDrop(ix.left, r.drop)) :
         victim \in Victims(ix.items, ix.priority, term)}

\* The loop of LuminosoModel.add_document over the document's connections:
\* relevance = self.database.term_relevance(term2); self.index_term(term2,
\* relevance), for each term in turn, on the database db as it is before
\* self.database.add_document(doc) runs.  The terms are words, whose relevance
\* is a count and so the one number value.lo.  The result is the index states
\* it can end in and the exception that stopped it (None: none).
RECURSIVE index_terms(_, _, _)
index_terms(ixs, db, termlist) ==
    IF termlist = <<>> THEN [ixs |-> ixs, err |-> None]
    ELSE LET term == Head(termlist)[1]
             relevance == term_relevance(db.cache, db.terms, term)
         IN  IF relevance.err # None THEN [ixs |-> ixs, err |-> relevance.err]
             ELSE index_terms(UNION {index_term_on(ix, term, relevance.value.lo) : ix \in ixs},
                              db, Tail(termlist))

\* Texts the reader is followed on: no two words are adjacent in them, so
\* extract_connections connects the document to the words alone, with weight
\* 1.0, and -0.5 after a negation.
ReaderTexts == {"", "a not b", "b"}

\* LuminosoModel.add_document(doc, reader_name), which is one turn of the first
\* loop of add_batch (study is None): the terms of the text are indexed, each
\* with its relevance, then self.database.add_document(doc) records them.
ModelAddDocument ==
    \E docid \in Docs, text \in ReaderTexts, reader_name \in Readers :
        LET recorded == add_document(Current, docid, text, reader_name)
            indexed == index_terms({IndexState(items, priority, left)},
                                   Current, TermsOf(text))
            after == IF indexed.err # None THEN Raise(Current, indexed.err) ELSE recorded
        IN  /\ ops < MaxOps
            /\ \E ix \in indexed.ixs :
                   /\ items' = ix.items
                   /\ priority' = ix.priority
                   /\ left' = ix.left
            /\ dflt' = dflt
            /\ last' = [NoCall EXCEPT !.op = "add_document", !.err = after.err]
            /\ Called("LuminosoModel.add_document", docid, text, reader_name, after, None)

\* A model made by make() or make_empty(), its database empty.
InitModel ==
    /\ InitDB
    /\ items \in SeedLabels
    /\ priority = [t \in Terms |-> IF t \in Range(items) THEN BIG ELSE NoPriority]
    /\ left = [i \in 0 .. NumConcepts - 1 |-> "zero"]
    /\ last = NoCall
    /\ dflt \in Priorities

\* Documents are added to the model, one after the other.
NextBatch == ModelAddDocument

SpecBatch == InitModel /\ [][NextBatch]_vars

\* ---------------------------------------------- the learning passes of a batch
\* LuminosoModel.learn_assoc(weight, term1, term2) on an index state: the
\* states it can leave, one for each key the two add() may drop and each pair
\* of rows the Hebbian step may write.
learn_assoc_on(ix, term1, term2) ==
    UNION {LET r1 == PrioritySetAdd(ix.items, ix.priority, term1, victim1)
               l1 == AfterDrop(ix.left, r1.drop)
           IN  UNION {LET r2 == PrioritySetAdd(r1.items, r1.priority, term2, victim2)
                          l2 == AfterDrop(l1, r2.drop)
                      IN  {IndexState(r2.items, r2.priority,
                                      hebbian_increment(l2, r1.index, r2.index, v[1], v[2])) :
                           v \in RowVals \X RowVals} :
                      victim2 \in Victims(r1.items, r1.priority, term2)} :
           victim1 \in Victims(ix.items, ix.priority, term1)}

\* An accumulator that takes every pair of the batch.
Accumulated_Unfiltered(its, pairs) == pairs

\* The keys of learn_accumulator, in the order the learning loop meets them:
\* the pairs of the batch's connections with
\* `term1 in self.priority and term2 in self.priority'.
Accumulated(its, pairs) ==
    SelectSeq(pairs, LAMBDA pair : Contains(its, pair[1]) /\ Contains(its, pair[2]))

\* One pass of `for term1, term2 in learn_accumulator', learn_assoc for each.
RECURSIVE learn_pass(_, _)
learn_pass(ixs, acc) ==
    IF acc = <<>> THEN ixs
    ELSE learn_pass(UNION {learn_assoc_on(ix, Head(acc)[1], Head(acc)[2]) : ix \in ixs},
                    Tail(acc))

\* `for iter in xrange(learn_iterations)'
RECURSIVE learn_passes(_, _, _)
learn_passes(ixs, acc, iterations) ==
    IF iterations = 0 THEN ixs
    ELSE learn_passes(learn_pass(ixs, acc), acc, iterations - 1)

\* The term pairs the documents of a batch connect, in the order met.
BatchPairs == {<<>>,
               <<<<"a", "b">>>>,
               <<<<"a", "a">>, <<"a", "b">>, <<"b", "b">>>>,
               <<<<"c", "d">>, <<"a", "b">>>>,
               <<<<"a", "c">>, <<"d", "d">>, <<"c", "c">>>>}

\* The largest learn_iterations a batch is added with.
MaxIterations == 2

\* add_batch from `if learn_iterations:' on: the accumulator is filled from the
\* batch's connections, then learned learn_iterations times.  What is kept of
\* it: the number of pairs accumulated (arg) and whether the batch had a pair
\* that was left out (held).
LearnBatch ==
    \E pairs \in BatchPairs, iterations \in 1 .. MaxIterations :
        LET acc == Accumulated(items, pairs)
        IN  \E ix \in learn_passes({IndexState(items, priority, left)}, acc, iterations) :
                /\ items' = ix.items
                /\ priority' = ix.priority
                /\ left' = ix.left
                /\ dflt' = dflt
                /\ UNCHANGED dbvars
                /\ last' = [NoCall EXCEPT !.op = "add_batch", !.arg = Len(acc),
                                          !.held = Len(acc) < Len(pairs)]

\* The row labels of the seed matrix a model is made from: none, two, or as
\* many as the set holds.
BatchSeedLabels == SeedLabels \cup {<<"a", "b", "c">>}

\* A model made by make() or make_empty(), whose association matrix has been
\* learned into or not.
InitLearnBatch ==
    /\ InitDB
    /\ rowapi = "rowlike"
    /\ items \in BatchSeedLabels
    /\ priority = [t \in Terms |-> IF t \in Range(items) THEN BIG ELSE NoPriority]
    /\ left \in [0 .. NumConcepts - 1 -> RowVals]
    /\ \A i \in 0 .. NumConcepts - 1 : i >= Len(items) => left[i] = "zero"
    /\ last = NoCall
    /\ dflt \in Priorities

\* Batches are added for their learning passes.
NextLearnBatch == LearnBatch

SpecLearnBatch == InitLearnBatch /\ [][NextLearnBatch]_vars

\* ------------------------------------------- bigram significance, called
\* The largest total number of words bigram_likelihood_ratio is applied to.
MaxCount == 6

\* Counts a bigram and its two words can have among n words.
Admissible(n_12, n_1, n_2, n) ==
    /\ n_12 >= 0
    /\ n_12 <= n_1
    /\ n_12 <= n_2
    /\ n_1 + n_2 - n_12 <= n

\* bigram_likelihood_ratio(n_12, n_1, n_2, n) called by itself on admissible
\* whole counts.
BigramLikelihoodRatio ==
    \E n \in 0 .. MaxCount :
        \E n_1 \in 0 .. n, n_2 \in 0 .. n :
            \E n_12 \in 0 .. n :
                /\ Admissible(n_12, n_1, n_2, n)
                /\ ops < MaxOps
                /\ Called("bigram_likelihood_ratio", None, None, None, Current,
                          [n_12 |-> n_12, n_1 |-> n_1, n_2 |-> n_2, n |-> n,
                           value |-> bigram_likelihood_ratio(
                                         n_12 * One, n_1 * One, n_2 * One, n * One).value])
                /\ UNCHANGED indexvars

NextBigram == BigramLikelihoodRatio

SpecBigram == InitTermDatabase /\ [][NextBigram]_vars

\* ------------------------------------------------------------- the reader
\* The longest token list extract_connections is followed on.
MaxTokens == 4

\* The tokens extract_tokens hands over: two ordinary words, a negation, a
\* punctuation token and the hard division.
HARD_PUNCT == {"//"}

PUNCT == {"."}

NEGATIONS == {"not"}

Tokens == Words \cup NEGATIONS \cup PUNCT \cup HARD_PUNCT

TokenLists == UNION {[1 .. n -> Tokens] : n \in 0 .. MaxTokens}

\* DOCUMENT = u'*Document*'.  A term is the list of its words: a word, or the
\* two words a bigram joins with a space.
DOCUMENT == <<"*Document*">>

RECURSIVE Pow(_, _)
Pow(x, n) == IF n = 0 THEN 1 ELSE x * Pow(x, n - 1)

\* A weight is negation_weight^neg * distance_weight^age = (-0.5)^neg * 0.9^age,
\* kept as the two exponents.
Weight(neg, age) == [neg |-> neg, age |-> age]

Times(w1, w2) == Weight(w1.neg + w2.neg, w1.age + w2.age)

Negative(w) == w.neg % 2 = 1

\* weight < self.cutoff, the cutoff being 0.1: a negative weight is, and a
\* positive one when 0.9^age / 2^neg < 1/10.
BelowCutoff(w) ==
    Negative(w) \/ 10 * Pow(9, w.age) < Pow(2, w.neg) * Pow(10, w.age)

\* _attenuate(memory): every weight is multiplied by distance_weight, and an
\* entry whose weight is then below the cutoff is deleted.
attenuate(memory) ==
    SelectSeq([i \in 1 .. Len(memory) |->
                   [memory[i] EXCEPT !.weight = Times(@, Weight(0, 1))]],
              LAMBDA entry : ~BelowCutoff(entry.weight))

\* The reader before the first token: weight = 1.0, memory = [],
\* prev_token = None, nothing yielded.  prev_at is the place of prev_token.
NoneRead == [weight |-> Weight(0, 0), memory |-> <<>>, prev_token |-> None,
             prev_at |-> 0, out |-> <<>>]

\* A hard division that only ends the negative context, as the other
\* punctuation does.
hard_punct_KeepsMemory(st, memory) ==
    [st EXCEPT !.memory = memory, !.weight = Weight(0, 0), !.prev_token = None]

\* token in cls.HARD_PUNCT: memory = [], weight = 1.0, prev_token = None
hard_punct(st, memory) ==
    [st EXCEPT !.memory = <<>>, !.weight = Weight(0, 0), !.prev_token = None]

\* token in cls.PUNCT_TOKENS or token[0] in cls.PUNCT
punct(st, memory) ==
    [st EXCEPT !.memory = memory, !.weight = Weight(0, 0), !.prev_token = None]

\* token in cls.NEGATIONS: weight *= self.negation_weight
negation(st, memory) ==
    [st EXCEPT !.memory = memory, !.weight = Times(@, Weight(1, 0)), !.prev_token = None]

\* The connections `for term in active_terms: for prev, prev_weight in memory'
\* yields: (weight * prev_weight, prev, term), with the places in the text the
\* two terms span (from: where prev begins, at: where term ends).
RECURSIVE pair_connections(_, _, _)
pair_connections(active, memory, weight) ==
    IF active = <<>> THEN <<>>
    ELSE [i \in 1 .. Len(memory) |->
              [weight |-> Times(weight, memory[i].weight),
               term1 |-> memory[i].term, term2 |-> Head(active).term,
               from |-> memory[i].from, at |-> Head(active).at]]
         \o pair_connections(Tail(active), memory, weight)

\* An ordinary token at place at: the token and, after a previous token, the
\* bigram are the active terms; each is connected to the document with the
\* weight of the context and appended to the memory; prev_token = token; then
\* each is connected to everything in memory, itself included.
ordinary(st, memory, token, at) ==
    LET active == IF st.prev_token = None
                  THEN <<[term |-> <<token>>, weight |-> st.weight, from |-> at, at |-> at]>>
                  ELSE <<[term |-> <<token>>, weight |-> st.weight, from |-> at, at |-> at],
                         [term |-> <<st.prev_token, token>>, weight |-> st.weight,
                          from |-> st.prev_at, at |-> at]>>
        documented == [i \in 1 .. Len(active) |->
                          [weight |-> st.weight, term1 |-> DOCUMENT,
                           term2 |-> active[i].term, from |-> active[i].from, at |-> at]]
        remembered == memory \o active
    IN  [st EXCEPT !.memory = remembered, !.prev_token = token, !.prev_at = at,
                   !.out = @ \o documented \o pair_connections(active, remembered, st.weight)]

\* One turn of the loop of extract_connections, for the token at place at.
read_token(st, token, at) ==
    LET memory == attenuate(st.memory)
    IN  IF token \in HARD_PUNCT THEN hard_punct(st, memory)
        ELSE IF token \in PUNCT THEN punct(st, memory)
        ELSE IF token \in NEGATIONS THEN negation(st, memory)
        ELSE ordinary(st, memory, token, at)

\* SimpleNLPEnglishReader.extract_connections on a list of tokens: the state
\* of the reader after each token; the last one holds all it yielded.
RECURSIVE extract_connections(_, _)
extract_connections(tokens, n) ==
    IF n = 0 THEN <<>>
    ELSE LET before == extract_connections(tokens, n - 1)
             st == IF n = 1 THEN NoneRead ELSE before[n - 1]
         IN  Append(before, read_token(st, tokens[n], n))

\* extract_connections is called on the tokens of a text.
ExtractConnections ==
    /\ dblast.op = "extract_tokens"
    /\ Called("extract_connections", None, None, None, Current,
              [tokens |-> dblast.ret.tokens,
               steps |-> extract_connections(dblast.ret.tokens, Len(dblast.ret.tokens))])
    /\ UNCHANGED indexvars

\* A reader with the tokens of some text to read.
InitReader ==
    /\ terms = [t \in TermKeys |-> NoTerm]
    /\ document_terms = [k \in Docs \X TermKeys |-> NoEntry]
    /\ documents = [d \in Docs |-> NoDoc]
    /\ \E tokens \in TokenLists :
           dblast = [op |-> "extract_tokens", doc |-> None, text |-> None, reader |-> None,
                     existed |-> FALSE, same |-> FALSE, err |-> None,
                     ret |-> [tokens |-> tokens, steps |-> <<>>]]
    /\ prev = [terms |-> terms, document_terms |-> document_terms]
    /\ ops = 0
    /\ term_count_cache = [t \in TermKeys |-> NoCache]
    /\ rowapi = "rowlike"
    /\ items = <<>>
    /\ priority = [t \in Terms |-> NoPriority]
    /\ left = [i \in 0 .. NumConcepts - 1 |-> "zero"]
    /\ last = NoCall
    /\ dflt = 0

NextReader == ExtractConnections

SpecReader == InitReader /\ [][NextReader]_vars

\* ------------------------------------------------------------------ claims
\* The call the step just made.
Inserted(term) == last'.op = "index_term" /\ last'.term = term

\* A full set is asked for a term it does not hold.
FullAndNew(term) == Len(items) >= NumConcepts /\ ~Contains(items, term)

\* C1: whatever index_term calls are made, the number of terms holding a slot
\* never exceeds num_concepts, the capacity the set was built with.
C1_CapacityNeverExceeded ==
    /\ Len(items) <= NumConcepts
    /\ Cardinality(Range(items)) <= NumConcepts
    /\ Cardinality(Held(priority)) <= NumConcepts

\* A full set that has just dropped a key for a new one.
C1_Witness ==
    /\ last.op = "index_term"
    /\ last.drop.key # None
    /\ Cardinality(Range(items)) = NumConcepts

\* C2: in every reachable state each occupied slot holds one term and that term
\* maps back to the slot: no term is in two slots, the terms with a slot are
\* those with a priority, and the slot a call returns holds the term it was
\* called with.
C2_SlotsAndTermsBijective ==
    /\ \A i, j \in 1 .. Len(items) : items[i] = items[j] => i = j
    /\ Range(items) = Held(priority)
    /\ \A t \in Range(items) : items[IndexOf(items, t) + 1] = t
    /\ last.op = "index_term" /\ last.index >= 0 => items[last.index + 1] = last.term

\* A term sits in a slot another term held before it.
C2_Witness ==
    /\ last.op = "index_term"
    /\ last.drop.key # None
    /\ last.drop.key # last.term
    /\ items[last.drop.index + 1] = last.term

\* C3 as claimed: a full set rejects an untracked term whose priority is at most
\* the lowest priority held; items, priorities and rows stay as they were and
\* the term stays untracked.
C3_RejectedAtOrBelowMinimum ==
    [][\A term \in Terms :
        (Inserted(term) /\ FullAndNew(term) /\ last'.arg # NoPriority
            /\ last'.arg <= MinPriority(priority))
        => (items' = items /\ priority' = priority /\ left' = left
            /\ ~Contains(items', term))]_vars

\* C3 as amended: a full set never rejects an untracked term, whatever priority
\* comes with it, also one at or below the lowest held: a key of lowest
\* priority is dropped, the term takes its slot and is tracked.
C3_NeverRejected ==
    [][\A term \in Terms :
        (Inserted(term) /\ FullAndNew(term) /\ last'.arg # NoPriority
            /\ last'.arg <= MinPriority(priority))
        => (/\ Contains(items', term)
            /\ last'.drop.key \in Lowest(priority)
            /\ Range(items') = (Range(items) \ {last'.drop.key}) \cup {term}
            /\ last'.index = IndexOf(items, last'.drop.key)
            /\ items'[last'.index + 1] = term)]_vars

\* A term came with priority 0 (at most any priority held) and a key was dropped
\* for it; the dropped key's priority was the lowest held and not below 0.
C3_Witness ==
    /\ last.op = "index_term"
    /\ last.drop.key # None
    /\ last.arg # NoPriority
    /\ last.arg <= last.drop.prio
    /\ Contains(items, last.term)

\* C4: when index_term(term, priority) returns, the term is in the priority set
\* and the value returned is the term's slot, for every priority (0 and None
\* included) and also when the set was full.
C4_IndexTermTracksTerm ==
    last.op = "index_term" =>
        /\ Contains(items, last.term)
        /\ priority[last.term] # NoPriority
        /\ last.index = IndexOf(items, last.term)

\* index_term was called on a full set with a new term and priority 0 or None.
C4_Witness ==
    /\ last.op = "index_term"
    /\ ~Truthy(last.arg)
    /\ last.drop.key # None
    /\ last.index = IndexOf(items, last.term)

\* C5: a full set asked for an untracked term with a priority strictly above
\* the lowest held drops exactly one key, one of lowest priority, gives the new
\* term that key's slot and leaves every other term in its slot.
C5_EvictsMinimumAndReusesSlot ==
    [][\A term \in Terms :
        (Inserted(term) /\ FullAndNew(term) /\ last'.arg # NoPriority
            /\ last'.arg > MinPriority(priority))
        => LET gone == Range(items) \ Range(items')
           IN  /\ Cardinality(gone) = 1
               /\ gone = {last'.drop.key}
               /\ \A v \in gone :
                    /\ priority[v] = MinPriority(priority)
                    /\ priority'[v] = NoPriority
                    /\ IndexOf(items', term) = IndexOf(items, v)
                    /\ last'.index = IndexOf(items, v)
               /\ \A u \in Range(items) \ gone :
                    IndexOf(items', u) = IndexOf(items, u)]_vars

\* A key was dropped for a term whose priority was above the dropped key's.
C5_Witness ==
    /\ last.op = "index_term"
    /\ last.drop.key # None
    /\ last.arg > last.drop.prio
    /\ priority[last.term] = last.arg

\* C6: when a term is dropped from slot i the listener is called with (i, term)
\* and zeroes row i before the slot is handed on: the row read between the drop
\* and the reassignment is zero, and the term index_term puts in the slot
\* starts from a zero row.
C6_DropZeroesRow ==
    [][/\ last'.drop.key # None =>
            /\ items[last'.drop.index + 1] = last'.drop.key
            /\ last'.drop.was = left[last'.drop.index]
            /\ last'.drop.row = "zero"
       /\ last'.drop2.key # None => last'.drop2.row = "zero"
       /\ (last'.op = "index_term" /\ last'.drop.key # None) =>
            /\ last'.index = last'.drop.index
            /\ items'[last'.index + 1] = last'.term
            /\ left'[last'.index] = "zero"]_vars

\* A term whose row was not zero was dropped and another term holds its slot.
C6_Witness ==
    /\ last.op = "index_term"
    /\ last.drop.key # None
    /\ last.drop.was = "nonzero"
    /\ items[last.drop.index + 1] = last.term
    /\ left[last.drop.index] = "zero"

\* C7: index_term on a term that holds a slot returns that slot, drops nothing,
\* leaves items and rows alone and changes no other term's priority; the same
\* call made again returns the same slot.
C7_ReinsertKeepsSlot ==
    [][\A term \in Terms :
        /\ (Inserted(term) /\ Contains(items, term)) =>
              /\ last'.index = IndexOf(items, term)
              /\ items' = items
              /\ left' = left
              /\ last'.drop.key = None
              /\ \A u \in Terms \ {term} : priority'[u] = priority[u]
        /\ (Inserted(term) /\ last.op = "index_term" /\ last.term = term) =>
              last'.index = last.index]_vars

\* index_term was called with a priority on a term of a full set.
C7_Witness ==
    /\ last.op = "index_term"
    /\ last.held
    /\ Truthy(last.arg)
    /\ Len(items) = NumConcepts
    /\ priority[last.term] = last.arg

\* ------------------------------------------------- claims on the database
\* Two terms tables give every term the same count and distinct_docs (a term
\* without a row counts as 0 in 0 documents, as count_term reports it).
SameStats(tt1, tt2) ==
    \A t \in TermKeys : /\ tt1[t].count = tt2[t].count
                        /\ tt1[t].distinct_docs = tt2[t].distinct_docs

\* The step is add_document(docid, ...) with the text and reader stored for docid.
SameAgain(docid) ==
    /\ dblast'.op = "add_document" /\ dblast'.doc = docid
    /\ documents[docid].present
    /\ documents[docid].text = dblast'.text
    /\ documents[docid].reader = dblast'.reader

\* C8: add_document called again with the id, text and reader already stored
\* leaves every term's count and distinct-document count, every per-document
\* count, the ANY totals and the documents table as they were.
C8_SameDocumentAgainChangesNothing ==
    [][\A docid \in Docs : SameAgain(docid) =>
            /\ terms' = terms
            /\ document_terms' = document_terms
            /\ documents' = documents
            /\ dblast'.err = None]_vars

\* A document with a negated and a plain term was added a second time, unchanged.
C8_Witness ==
    /\ dblast.op = "add_document" /\ dblast.same
    /\ dblast.text = "a not b"
    /\ terms = prev.terms /\ document_terms = prev.document_terms
    /\ terms["a"].count = 2 /\ terms["b"].count = 1 /\ terms[ANY].count = 3
    /\ document_terms[<<dblast.doc, "b">>].count = -1

\* A database that was empty and saw each document of docset once, in the
\* version dd stores.
RECURSIVE FreshWith(_, _, _)
FreshWith(db, dd, docset) ==
    IF docset = {} THEN db
    ELSE LET docid == CHOOSE d \in docset : TRUE
         IN  FreshWith(add_document(db, docid, dd[docid].text, dd[docid].reader),
                       dd, docset \ {docid})

EmptyDB ==
    DB([t \in TermKeys |-> NoTerm], [k \in Docs \X TermKeys |-> NoEntry],
       [d \in Docs |-> NoDoc], [t \in TermKeys |-> NoCache], None)

Fresh(dd) == FreshWith(EmptyDB, dd, {d \in Docs : dd[d].present})

\* The step is add_document(docid, ...) on a stored document whose text or
\* reader differs, from tables that are those of a fresh database.
Replacing(docid) ==
    /\ dblast'.op = "add_document" /\ dblast'.doc = docid
    /\ documents[docid].present
    /\ ~dblast'.same
    /\ SameStats(terms, Fresh(documents).terms)

\* C9: re-adding a stored document id with changed text retracts the old version
\* and applies the new one: afterwards the counts, distinct-document counts and
\* ANY totals are those of a database that only ever saw the new version of
\* that document and the other documents.
C9_ReplacedEqualsFresh ==
    [][\A docid \in Docs : Replacing(docid) =>
            LET dd == [documents EXCEPT ![docid] =
                          [present |-> TRUE, text |-> dblast'.text, reader |-> dblast'.reader]]
            IN  /\ dblast'.err = None
                /\ SameStats(terms', Fresh(dd).terms)]_vars

\* The step is clear_document(docid) right after the add_document(docid, ...)
\* that first stored docid.
RoundTrip(docid) ==
    /\ dblast.op = "add_document" /\ dblast.doc = docid
    /\ ~dblast.existed /\ dblast.err = None
    /\ dblast'.op = "clear_document" /\ dblast'.doc = docid

\* C10: clear_document(d) right after the add_document that stored d puts every
\* term's count and distinct-document count, the ANY totals and the
\* per-document entries of d back to what they were before d was added,
\* whatever the weights of d's terms (negative ones included).
C10_ClearUndoesAdd ==
    [][\A docid \in Docs : RoundTrip(docid) =>
            /\ SameStats(terms', prev.terms)
            /\ \A t \in TermKeys :
                   document_terms'[<<docid, t>>] = prev.document_terms[<<docid, t>>]]_vars

\* The step is clear_document(docid) on a stored document.
Retracting(docid) ==
    /\ dblast'.op = "clear_document" /\ dblast'.doc = docid
    /\ documents[docid].present

\* C11: retracting one stored document takes exactly one from the
\* distinct-document count of ANY, however many terms the document has.
C11_AnyLosesOneDocument ==
    [][\A docid \in Docs : Retracting(docid) =>
            terms'[ANY].distinct_docs = terms[ANY].distinct_docs - 1]_vars

RECURSIVE SumCounts(_, _)
SumCounts(tt, keys) ==
    IF keys = {} THEN 0
    ELSE LET t == CHOOSE k \in keys : TRUE
         IN  tt[t].count + SumCounts(tt, keys \ {t})

C13_CountDocumentsIsStored ==
    count_documents(terms) = Cardinality(all_documents(documents))

\* C14: in every reachable state no term has been seen in more distinct
\* documents than ANY.
C14_DistinctDocsAtMostTotal ==
    \A t \in Words :
        count_term_distinct_documents(terms, t) <= count_documents(terms)

\* C15: in every reachable state every term, ANY included, has a count and a
\* distinct-document count of at least 0.
C15_NoNegativeCounter ==
    \A t \in TermKeys : terms[t].count >= 0 /\ terms[t].distinct_docs >= 0

\* The step is clear_document(docid) on an id with no Document row and no
\* per-document rows.
RetractingUnknown(docid) ==
    /\ dblast'.op = "clear_document" /\ dblast'.doc = docid
    /\ ~documents[docid].present
    /\ RowsOf(Current, docid) = {}

\* C16: clear_document on a document that was never observed fails and leaves
\* the terms, document_terms and documents tables as they were.
C16_UnknownDocumentLeftAlone ==
    [][\A docid \in Docs : RetractingUnknown(docid) =>
            /\ dblast'.err # None
            /\ terms' = terms
            /\ document_terms' = document_terms
            /\ documents' = documents]_vars

\* The step is increment_term_in_document(docid, term, ...).
Observing(docid, term) ==
    /\ dblast'.op = "increment_term_in_document"
    /\ dblast'.doc = docid /\ dblast'.text = term

\* C17: _increment_term_document_count(document, term) returns True exactly
\* when the pair had no row before the call, and no step leaves more than one
\* row for a (term, document) pair.
C17_NewDocIffNoRowBefore ==
    [][/\ \A docid \in Docs, term \in TermKeys :
             /\ document_terms'[<<docid, term>>].rows <= 1
             /\ Observing(docid, term) =>
                    /\ dblast'.ret = (document_terms[<<docid, term>>].rows = 0)
                    /\ document_terms'[<<docid, term>>].rows = 1]_vars

\* A term was observed a second time in the same document: the call returned
\* False and the pair's one row holds both observations.
C17_Witness ==
    /\ dblast.op = "increment_term_in_document" /\ dblast.ret = FALSE
    /\ prev.document_terms[<<dblast.doc, dblast.text>>].rows = 1
    /\ document_terms[<<dblast.doc, dblast.text>>].rows = 1
    /\ document_terms[<<dblast.doc, dblast.text>>].count = 4
    /\ \E t \in Words : ~document_terms[<<dblast.doc, t>>].present

\* C18: term_relevance of a tag term, a (TAG, key, value) tuple, returns _BIG
\* and does not raise.
C18_TagRelevanceIsBig ==
    [][(dblast'.op = "term_relevance" /\ IsTuple(dblast'.text)) =>
            /\ dblast'.err = None
            /\ dblast'.ret = BIG]_vars

\* C19: observing a term of three or more words raises the error for terms of
\* unsupported length and leaves the terms and document_terms tables (counts,
\* per-document counts, ANY totals) as they were before the call.
C19_TrigramLeavesCountsAlone ==
    [][\A docid \in Docs : Observing(docid, Trigram) =>
            /\ dblast'.err = "NotImplementedError"
            /\ terms' = terms
            /\ document_terms' = document_terms]_vars

\* ---------------------------------------------------- claims on projection
\* The terms of the query that hold a slot.
Tracked(its, query) == {k \in 1 .. Len(query) : Contains(its, query[k][1])}

\* C20: vector_from_terms changes neither the priority set nor the left
\* factor; it fails (the assertion on the empty vector, or the division by
\* the total weight) whenever no term of the query holds a slot or the weights
\* of the query add up to 0; and a term without a slot is passed over: a
\* query whose weights are positive and whose tracked terms meet one nonzero
\* row succeeds, whether or not it also names untracked terms.
C20_EmptyProjectionFails ==
    [][last'.op = "vector_from_terms" =>
          LET query == last'.query
              total == total_weight(query)
              tracked == Tracked(items, query)
          IN  /\ items' = items /\ priority' = priority /\ left' = left
              /\ (tracked = {} \/ total = 0) =>
                     last'.err \in {"AssertionError", "ZeroDivisionError"}
              /\ ( /\ tracked # {}
                   /\ \A k \in 1 .. Len(query) : query[k][2] > 0
                   /\ Cardinality({i \in SlotsOf(items, query) : left[i] = "nonzero"}) = 1 )
                  => last'.err = None]_vars

\* A full set that does not hold the term of the query: the projection failed
\* and the set and the left factor are what index_term left.
C20_Witness ==
    /\ last.op = "vector_from_terms"
    /\ last.query = <<<<"d", 2>>>>
    /\ Len(items) = NumConcepts
    /\ Tracked(items, last.query) = {}
    /\ last.err = "AssertionError"
    /\ \E i \in 0 .. NumConcepts - 1 : left[i] = "nonzero"

\* ------------------------------------------------------ claims on TF-IDF
\* C21: tfidf_term_in_document(term, document) returns 0, and does not fail
\* on the division, when the document has no recorded tokens (its count of
\* ANY is 0 or it has no ANY row).
C21_TfidfOfEmptyDocumentIsZero ==
    [][\A docid \in Docs :
          ( /\ dblast'.op = "tfidf_term_in_document" /\ dblast'.doc = docid
            /\ count_term_in_document(document_terms, ANY, docid) = 0 )
          => /\ dblast'.err = None
             /\ dblast'.ret.tfnum = 0]_vars

\* log(x.num) - log(x.den) = log(num) - log(den), all four positive.
SameLogDifference(x, num, den) == x.num * den = num * x.den

\* C22: term_idf(term) is ln(1 + total documents) - ln(1 + distinct documents
\* of the term), the IDF that tfidf_term_in_document multiplies by, and so 0
\* for a term that is in every document seen.
C22_TermIdfIsTfidfIdf ==
    [][\A term \in Words :
          ( /\ dblast'.op = "term_idf" /\ dblast'.text = term
            /\ dblast'.err = None )
          => LET total == count_documents(terms)
                 distinct == count_term_distinct_documents(terms, term)
                 tfidf == tfidf_term_in_document(terms, document_terms, term, "d1")
             IN  /\ SameLogDifference(dblast'.ret, 1 + total, 1 + distinct)
                 /\ SameLogDifference(dblast'.ret, tfidf.num, tfidf.den)
                 /\ (distinct = total => dblast'.ret.num = dblast'.ret.den)]_vars

\* The step just applied bigram_likelihood_ratio, and the bigram could occur
\* once more with the other three counts as they are.
OneMoreBigram ==
    /\ dblast.op = "bigram_likelihood_ratio"
    /\ Admissible(dblast.ret.n_12 + 1, dblast.ret.n_1, dblast.ret.n_2, dblast.ret.n)

\* The significance of the bigram occurring once more.
WithOneMore ==
    bigram_likelihood_ratio((dblast.ret.n_12 + 1) * One, dblast.ret.n_1 * One,
                            dblast.ret.n_2 * One, dblast.ret.n * One).value

\* The smoothed table is at or above independence: the bigram occurs at least
\* as often as its two words would give by chance.
AtOrAboveIndependence ==
    LET cont == contingency(dblast.ret.n_12 * One, dblast.ret.n_1 * One,
                            dblast.ret.n_2 * One, dblast.ret.n * One)
    IN  cont[0] * cont[3] >= cont[1] * cont[2]

StoredCount(tt, term) == IF tt[term].present THEN tt[term].count ELSE 0

FailedOn(docid) ==
    /\ dblast'.op = "LuminosoModel.add_document"
    /\ dblast'.doc = docid
    /\ dblast'.err # None

\* C26: when add_batch fails on a document, the document leaves nothing: the
\* tables are as they were before it (the session is never rolled back, so
\* what a failed call leaves in it is what the next commit writes), and the
\* priority set holds no change made for the document.
C26_FailedDocumentLeavesNothing ==
    [][\A docid \in Docs : FailedOn(docid) =>
            /\ terms' = terms
            /\ document_terms' = document_terms
            /\ documents' = documents
            /\ items' = items
            /\ priority' = priority]_vars

\* The terms of a text, as a set.
TermSet(text) == {TermsOf(text)[i][1] : i \in 1 .. Len(TermsOf(text))}

\* The step is a LuminosoModel.add_document of this text that returned.
Added(text) ==
    /\ dblast'.op = "LuminosoModel.add_document"
    /\ dblast'.text = text
    /\ dblast'.err = None

\* C28: after add_document(doc) has returned, each term of doc that the
\* priority set holds has as its priority the relevance the term has in the
\* database with doc recorded.
C28_PriorityIsRelevanceWithDocument ==
    [][\A text \in ReaderTexts : Added(text) =>
            \A term \in TermSet(text) \cap Range(items') :
                priority'[term] = term_relevance(term_count_cache', terms', term).value.lo]_vars

\* The last call committed: add_document and clear_document end with
\* self.commit() when nothing raised.
Committed ==
    /\ dblast.op \in {"add_document", "clear_document"}
    /\ dblast.err = None

\* The stored relevance of a term is the value term_relevance returns for it
\* now: term_relevance returns, and the two floats can be the same number.
RelevanceIsCurrent(term) ==
    LET now == term_relevance(term_count_cache, terms, term)
    IN  /\ now.err = None
        /\ terms[term].relevance.lo <= now.value.hi
        /\ now.value.lo <= terms[term].relevance.hi

\* C27: in every committed state the relevance stored for each word and each
\* bigram with a row, which top_terms orders by, is term_relevance(term) on
\* the current counts.
C27_StoredRelevanceIsCurrent ==
    Committed => \A term \in Words \cup {Bigram} :
                     terms[term].present => RelevanceIsCurrent(term)

\* The step is learn_assoc(weight, term1, term2).
Learned(term1, term2) ==
    /\ last'.op = "learn_assoc"
    /\ last'.term = term1
    /\ last'.term2 = term2

\* C29: the row and column learn_assoc hands to the Hebbian step are the
\* indices term1 and term2 have in the priority set when the step is made:
\* both terms are held then, term1 at row and term2 at col.
C29_RowAndColAreTheTermsSlots ==
    [][\A pair \in LearnPairs : Learned(pair[1], pair[2]) =>
            /\ Contains(items', pair[1])
            /\ Contains(items', pair[2])
            /\ IndexOf(items', pair[1]) = last'.index
            /\ IndexOf(items', pair[2]) = last'.col]_vars

\* C30: the learning passes of add_batch insert no term into the priority set
\* and evict none: the terms held, their indices and their priorities are
\* after the passes what they were before.
C30_LearningPassesKeepTheSet ==
    [][last'.op = "add_batch" => (items' = items /\ priority' = priority)]_vars

\* A full set has just been through the learning passes of a batch that
\* learned a pair and had another pair with a term the set does not hold.
C30_Witness ==
    /\ last.op = "add_batch"
    /\ last.arg >= 1
    /\ last.held
    /\ Len(items) = Capacity
    /\ \E i \in 0 .. NumConcepts - 1 : left[i] = "nonzero"

\* The last call was vector_from_terms on a query with a term the set holds.
ProjectedTracked ==
    /\ last.op = "vector_from_terms"
    /\ \E k \in 1 .. Len(last.query) : Contains(items, last.query[k][1])

\* C31: for a query with at least one tracked term the loop of
\* vector_from_terms ends without an exception: every tracked term's
\* weight * idf / total_weight is computed and is above 0, negative weights of
\* negated terms included.
C31_TfidfWeightsArePositive ==
    ProjectedTracked => loop_failure(items, terms, last.query, total_weight(last.query)) = None

\* C32: the assertion of _increment_term_count never fails, whatever
\* add_document, increment_term_in_document and clear_document calls came
\* before: no call ends with AssertionError, and a term without a Term row has
\* no per-document row either, so the observation that meets it has just made
\* the pair's first row (newdoc is True).
C32_AssertionNeverFails ==
    /\ dblast.err # "AssertionError"
    /\ \A docid \in Docs, term \in TermKeys :
           document_terms[<<docid, term>>].present => terms[term].present

\* After a retraction, a term without a Term row was observed: the call made
\* the pair's first row and the Term row, and did not raise.
C32_Witness ==
    /\ dblast.op = "increment_term_in_document"
    /\ dblast.err = None
    /\ dblast.ret = TRUE
    /\ dblast.text \in Words
    /\ ~prev.terms[dblast.text].present
    /\ terms[dblast.text].present
    /\ \E docid \in Docs : ~documents[docid].present /\ terms[ANY].distinct_docs < 0

\* What extract_connections was last called on and what it went through.
Read == dblast.op = "extract_connections"

ReadTokens == dblast.ret.tokens

ReadSteps == dblast.ret.steps

Yielded == IF ReadSteps = <<>> THEN <<>> ELSE ReadSteps[Len(ReadSteps)].out

\* Place i holds an ordinary token: a word that becomes a term.
OrdinaryAt(i) == ReadTokens[i] \in Words

\* C33: the hard division '//' separates the text completely: nothing that
\* extract_connections yields joins a term before a '//' to a term after it,
\* as a connection or as a bigram, and right after the '//' the memory is
\* empty and the weight of the context is 1.0.
C33_HardDivisionSeparates ==
    Read =>
        \A i \in 1 .. Len(ReadTokens) :
            ReadTokens[i] \in HARD_PUNCT =>
                /\ ReadSteps[i].memory = <<>>
                /\ ReadSteps[i].weight = Weight(0, 0)
                /\ \A k \in 1 .. Len(Yielded) :
                       ~(Yielded[k].from < i /\ i < Yielded[k].at)

\* A text read with a negated term before a '//' and a term after it, both
\* connected to the document.
C33_Witness ==
    /\ Read
    /\ \E i \in 1 .. Len(ReadTokens) :
           /\ ReadTokens[i] \in HARD_PUNCT
           /\ i > 2 /\ i < Len(ReadTokens)
           /\ OrdinaryAt(i - 1) /\ OrdinaryAt(i + 1)
           /\ Negative(ReadSteps[i - 1].weight)
           /\ \E k \in 1 .. Len(Yielded) : Yielded[k].at = i - 1
           /\ \E k \in 1 .. Len(Yielded) : Yielded[k].at = i + 1

\* The term at place i was met in a negative context.
NegatedAt(i) == OrdinaryAt(i) /\ Negative(ReadSteps[i].weight)

\* Places p < q hold two terms in association range, exactly one of them in a
\* negative context: no hard division lies between them (the distance itself
\* is far below the twenty tokens the weights last).
OneNegated(p, q) ==
    /\ p < q
    /\ OrdinaryAt(p) /\ OrdinaryAt(q)
    /\ \A i \in p .. q : ReadTokens[i] \notin HARD_PUNCT
    /\ NegatedAt(p) # NegatedAt(q)

\* A connection between the word at p and the word at q was yielded with a
\* negative weight.
FlippedConnection(p, q) ==
    \E k \in 1 .. Len(Yielded) :
        /\ Yielded[k].term1 = <<ReadTokens[p]>> /\ Yielded[k].from = p
        /\ Yielded[k].term2 = <<ReadTokens[q]>> /\ Yielded[k].at = q
        /\ Negative(Yielded[k].weight)

\* The word at p was connected to the document with a negative weight.
FlippedInDocument(p) ==
    \E k \in 1 .. Len(Yielded) :
        /\ Yielded[k].term1 = DOCUMENT
        /\ Yielded[k].term2 = <<ReadTokens[p]>> /\ Yielded[k].at = p
        /\ Negative(Yielded[k].weight)

\* C34: when exactly one term of a pair in association range is in a negative
\* context, extract_connections yields a connection between the two with a
\* negative weight, whichever of them comes first, and the negated term's
\* connection to the document is negative as well.
C34_OneNegatedFlipsTheConnection ==
    Read =>
        \A p, q \in 1 .. Len(ReadTokens) :
            OneNegated(p, q) =>
                /\ FlippedConnection(p, q)
                /\ \A i \in {p, q} : NegatedAt(i) => FlippedInDocument(i)

\* A negated term, then punctuation ending the negative context, then a term:
\* the second term meets nothing of the first.
C34_NegatedFirstIsForgotten ==
    /\ Read
    /\ \E p, q \in 1 .. Len(ReadTokens) :
           /\ OneNegated(p, q)
           /\ NegatedAt(p)
           /\ FlippedInDocument(p)
           /\ \A k \in 1 .. Len(Yielded) :
                  ~(Yielded[k].from = p /\ Yielded[k].at = q)

====
